---- MODULE Spec2Model ----
(***************************************************************************)
(* Model of static/script.js: two DOMContentLoaded handlers ("controllers" *)
(* 1 and 2) that each request the camera, attach the stream to the shared  *)
(* <video>, install video.onloadedmetadata, and register a click listener  *)
(* on the shared trigger label that snapshots the video through the shared *)
(* <canvas> and puts the JPEG into the shared <input type=file>.           *)
(***************************************************************************)
EXTENDS Integers, Sequences, FiniteSets, TLC

\* ---------------------------------------------------------------- bounds
MaxClicks == 2      \* clicks on the trigger control per page load
MaxClock  == 1      \* Date.now() ranges over 0..MaxClock
MaxDim    == 2      \* decoded video heights range over 1..MaxDim

\* ------------------------------------------------------------- constants
Controllers == {1, 2}
Elements == {"video", "canvas", "fileInput", "captureButton"}
NoDims == <<0, 0>>
Dims == {<<h + 1, h>> : h \in 1..MaxDim}

HtmlLabel        == "html-label"          \* text of the label in the markup
LabelConfigError == "config-error"        \* "設定エラー"
LabelUnavailable == "camera-unavailable"  \* "カメラ使用不可"
LabelReady(c)    == IF c = 1 THEN "shoot" ELSE "shoot-photo"
                    \* "📸 撮影する" / "📸 写真を撮影する"

AlertNoCamera      == "alert:no-camera-access"
AlertNotReady      == "alert:not-ready"
AlertCaptureFailed == "alert:capture-failed"
AlertSuccess(c)    == IF c = 1 THEN "alert:captured-was-set"
                               ELSE "alert:captured-is-set"
LogMissing(c)      == IF c = 1 THEN "error:elements-missing-camera-off"
                               ELSE "error:elements-missing-check-ids"
LogCameraError     == "error:camera-start"
LogStreamReady     == "log:stream-ready"

JpegType == "image/jpeg"

VARIABLES
    present,          \* which of the four elements the page markup has
    pc,               \* per controller: where its async handler stands
    isCameraReady,    \* per controller: the closure variable isCameraReady
    stream,           \* per controller: "none" or state of its stream's track
    stopCalls,        \* per controller: number of track.stop() calls made
    requests,         \* number of getUserMedia calls issued
    srcObject,        \* video.srcObject: 0 (null) or the controller's stream
    onloadedmetadata, \* video.onloadedmetadata: 0 (null) or the controller
    metadataPending,  \* the attached stream has not yet fired loadedmetadata
    videoDims,        \* <<video.videoWidth, video.videoHeight>>
    canvas,           \* <<canvas.width, canvas.height>>
    listeners,        \* click listeners of the trigger, in registration order
    pending,          \* toBlob requests in flight
    files,            \* fileInput.files
    label,            \* captureButton.textContent
    disabled,         \* whether the trigger control is disabled
    now,              \* last value read from the clock
    clicks,           \* number of clicks dispatched so far
    assignments,      \* history: number of assignments of fileInput.files
    origin,           \* history: the toBlob request that produced files
    unloaded,         \* the page has been unloaded
    out               \* what the last event did: alerts, console, ...

vars == <<present, pc, isCameraReady, stream, stopCalls, requests, srcObject,
          onloadedmetadata, metadataPending, videoDims, canvas, listeners,
          pending, files, label, disabled, now, clicks, assignments, origin,
          unloaded, out>>

NoOrigin == [ctrl |-> 0, click |-> 0, bitmap |-> NoDims, clickDims |-> NoDims]

Quiet(ev) == [event |-> ev, alerts |-> <<>>, console |-> <<>>,
              defaultPrevented |-> FALSE, captures |-> 0,
              passed |-> 0, uncaught |-> 0, steps |-> <<>>]

Init ==
    /\ present \in SUBSET Elements
    /\ pc = [c \in Controllers |-> "start"]
    /\ isCameraReady = [c \in Controllers |-> FALSE]
    /\ stream = [c \in Controllers |-> "none"]
    /\ stopCalls = [c \in Controllers |-> 0]
    /\ requests = 0
    /\ srcObject = 0
    /\ onloadedmetadata = 0
    /\ metadataPending = FALSE
    /\ videoDims = NoDims
    /\ canvas = NoDims
    /\ listeners = <<>>
    /\ pending = <<>>
    /\ files = <<>>
    /\ label = HtmlLabel
    /\ disabled = FALSE
    /\ now = 0
    /\ clicks = 0
    /\ assignments = 0
    /\ origin = NoOrigin
    /\ unloaded = FALSE
    /\ out = Quiet("none")

\* ------------------------------------------------- DOMContentLoaded part
\* if (!video || !canvas || !fileInput || !captureButton)  is  ~FoundAll
FoundAll == present = Elements

\* The label after controller c's missing-element branch ran on label l.
MissingLabel(c, l) ==
    IF c = 2 /\ "captureButton" \in present THEN LabelConfigError ELSE l

\* The statements of the continuation, in program order:
\* video.srcObject = stream; video.onloadedmetadata = ...; (end of try)
\* captureButton.addEventListener("click", ...)
GrantedSteps == <<"srcObject", "onloadedmetadata", "addEventListener">>

\* What the call navigator.mediaDevices.getUserMedia(...) can do: throw
\* (navigator.mediaDevices is undefined, as in an insecure context), return
\* a promise that is still pending, or return one that is already settled.
Calls == {"throws", "pending", "resolved", "rejected"}

\* The DOMContentLoaded dispatch has run a first listener and not yet the
\* last one: nothing but the next listener can run.
InDispatch ==
    \E c, d \in Controllers : pc[c] # "start" /\ pc[d] = "start"

\* The camera API was found absent by a listener that ran earlier in this
\* dispatch.
ApiAbsent ==
    \E d \in Controllers : pc[d] = "unavailable" /\ requests = 0

\* The effects of the listeners that ran earlier in this dispatch.
DispatchOut(c) == IF c = 1 THEN Quiet("DOMContentLoaded") ELSE out

\* The document fires DOMContentLoaded and the listener of controller c
\* runs (the listeners run in registration order), up to its return or to
\* its await of getUserMedia. When the awaited promise is already settled,
\* or the call throws inside the try, the rest of the handler (the
\* continuation, or the catch block) runs before the next listener does:
\* a microtask checkpoint follows every listener.
DOMContentLoaded(c, call) ==
    /\ ~unloaded
    /\ pc[c] = "start"
    /\ \A d \in Controllers : d < c => pc[d] # "start"
    /\ ~FoundAll => call = "pending"
    /\ (FoundAll /\ c > 1) => ((call = "throws") <=> ApiAbsent)
    /\ IF ~FoundAll
       THEN /\ pc' = [pc EXCEPT ![c] = "aborted"]
            /\ label' = MissingLabel(c, label)
            /\ out' = [DispatchOut(c) EXCEPT
                          !.console = Append(@, LogMissing(c))]
            /\ UNCHANGED <<requests, stream, srcObject, onloadedmetadata,
                           metadataPending, videoDims, listeners>>
       ELSE IF call = "pending"
       THEN /\ pc' = [pc EXCEPT ![c] = "requesting"]
            /\ requests' = requests + 1
            /\ out' = DispatchOut(c)
            /\ UNCHANGED <<label, stream, srcObject, onloadedmetadata,
                           metadataPending, videoDims, listeners>>
       ELSE IF call = "resolved"
       THEN /\ pc' = [pc EXCEPT ![c] = "listening"]
            /\ requests' = requests + 1
            /\ stream' = [stream EXCEPT ![c] = "live"]
            /\ srcObject' = c
            /\ metadataPending' = TRUE
            /\ videoDims' = NoDims
            /\ onloadedmetadata' = c
            /\ listeners' = Append(listeners, c)
            /\ out' = [DispatchOut(c) EXCEPT !.steps = @ \o GrantedSteps]
            /\ UNCHANGED label
       ELSE /\ pc' = [pc EXCEPT ![c] = "unavailable"]
            /\ requests' = IF call = "rejected" THEN requests + 1
                                                ELSE requests
            /\ label' = LabelUnavailable
            /\ out' = [DispatchOut(c) EXCEPT
                          !.alerts = Append(@, AlertNoCamera),
                          !.console = Append(@, LogCameraError)]
            /\ UNCHANGED <<stream, srcObject, onloadedmetadata,
                           metadataPending, videoDims, listeners>>
    /\ UNCHANGED <<present, isCameraReady, stopCalls, canvas, pending,
                   files, disabled, now, clicks, assignments, origin,
                   unloaded>>

\* --------------------------------------------- getUserMedia continuation
\* A continuation that sets the flag as soon as the stream is attached.
GetUserMediaGrantedEager(c) ==
    /\ ~unloaded
    /\ ~InDispatch
    /\ pc[c] = "requesting"
    /\ stream' = [stream EXCEPT ![c] = "live"]
    /\ srcObject' = c
    /\ metadataPending' = TRUE
    /\ videoDims' = NoDims
    /\ onloadedmetadata' = c
    /\ isCameraReady' = [isCameraReady EXCEPT ![c] = TRUE]
    /\ listeners' = Append(listeners, c)
    /\ pc' = [pc EXCEPT ![c] = "listening"]
    /\ out' = [Quiet("granted") EXCEPT !.steps = GrantedSteps]
    /\ UNCHANGED <<present, stopCalls, requests, canvas, pending, files,
                   label, disabled, now, clicks, assignments, origin,
                   unloaded>>

\* A continuation that attaches the stream and resets every readiness flag.
GetUserMediaGrantedReset(c) ==
    /\ ~unloaded
    /\ ~InDispatch
    /\ pc[c] = "requesting"
    /\ stream' = [stream EXCEPT ![c] = "live"]
    /\ srcObject' = c
    /\ metadataPending' = TRUE
    /\ videoDims' = NoDims
    /\ onloadedmetadata' = c
    /\ isCameraReady' = [d \in Controllers |-> FALSE]
    /\ listeners' = Append(listeners, c)
    /\ pc' = [pc EXCEPT ![c] = "listening"]
    /\ out' = [Quiet("granted") EXCEPT !.steps = GrantedSteps]
    /\ UNCHANGED <<present, stopCalls, requests, canvas, pending, files,
                   label, disabled, now, clicks, assignments, origin,
                   unloaded>>

\* A continuation that attaches the stream and installs no observer.
GetUserMediaGrantedNoObserver(c) ==
    /\ ~unloaded
    /\ ~InDispatch
    /\ pc[c] = "requesting"
    /\ stream' = [stream EXCEPT ![c] = "live"]
    /\ srcObject' = c
    /\ metadataPending' = TRUE
    /\ videoDims' = NoDims
    /\ listeners' = Append(listeners, c)
    /\ pc' = [pc EXCEPT ![c] = "listening"]
    /\ out' = [Quiet("granted") EXCEPT !.steps = GrantedSteps]
    /\ UNCHANGED <<present, isCameraReady, stopCalls, requests, canvas,
                   onloadedmetadata, pending, files, label, disabled, now,
                   clicks, assignments, origin, unloaded>>

\* getUserMedia of controller c resolves: the handler resumes after the
\* await, attaches the stream, installs onloadedmetadata, leaves the try
\* and registers its click listener.
GetUserMediaGranted(c) ==
    /\ ~unloaded
    /\ ~InDispatch
    /\ pc[c] = "requesting"
    /\ stream' = [stream EXCEPT ![c] = "live"]
    /\ srcObject' = c
    /\ metadataPending' = TRUE
    /\ videoDims' = NoDims
    /\ onloadedmetadata' = c
    /\ listeners' = Append(listeners, c)
    /\ pc' = [pc EXCEPT ![c] = "listening"]
    /\ out' = [Quiet("granted") EXCEPT !.steps = GrantedSteps]
    /\ UNCHANGED <<present, isCameraReady, stopCalls, requests, canvas,
                   pending, files, label, disabled, now, clicks,
                   assignments, origin, unloaded>>

\* getUserMedia of controller c rejects: the catch block runs and returns.
GetUserMediaRejected(c) ==
    /\ ~unloaded
    /\ ~InDispatch
    /\ pc[c] = "requesting"
    /\ label' = LabelUnavailable
    /\ pc' = [pc EXCEPT ![c] = "unavailable"]
    /\ out' = [Quiet("rejected") EXCEPT !.alerts = <<AlertNoCamera>>,
                                        !.console = <<LogCameraError>>]
    /\ UNCHANGED <<present, isCameraReady, stream, stopCalls, requests,
                   srcObject, onloadedmetadata, metadataPending, videoDims,
                   canvas, listeners, pending, files, disabled, now, clicks,
                   assignments, origin, unloaded>>

\* ------------------------------------------------------------ the video
\* The video element reports loadedmetadata for the attached stream, with
\* decoded size d; the installed onloadedmetadata handler runs.
LoadedMetadata(d) ==
    /\ ~unloaded
    /\ ~InDispatch
    /\ srcObject # 0
    /\ metadataPending
    /\ metadataPending' = FALSE
    /\ videoDims' = d
    /\ IF onloadedmetadata # 0
       THEN /\ isCameraReady' =
                   [isCameraReady EXCEPT ![onloadedmetadata] = TRUE]
            /\ label' = LabelReady(onloadedmetadata)
            /\ out' = [Quiet("loadedmetadata") EXCEPT
                          !.console = <<LogStreamReady>>]
       ELSE /\ UNCHANGED <<isCameraReady, label>>
            /\ out' = Quiet("loadedmetadata")
    /\ UNCHANGED <<present, pc, stream, stopCalls, requests, srcObject,
                   onloadedmetadata, canvas, listeners, pending, files,
                   disabled, now, clicks, assignments, origin, unloaded>>

\* The device renegotiates its resolution: the decoded size becomes d.
\* No script of the page listens to this.
Resize(d) ==
    /\ ~unloaded
    /\ ~InDispatch
    /\ srcObject # 0
    /\ ~metadataPending
    /\ d # videoDims
    /\ videoDims' = d
    /\ out' = Quiet("resize")
    /\ UNCHANGED <<present, pc, isCameraReady, stream, stopCalls, requests,
                   srcObject, onloadedmetadata, metadataPending, canvas,
                   listeners, pending, files, label, disabled, now, clicks,
                   assignments, origin, unloaded>>

\* ------------------------------------------------------------ the click
\* A check that forgets the flag:  if (!video.srcObject)
ReadyCheckNoFlag(c) == srcObject # 0

\* The negation of  if (!isCameraReady || !video.srcObject)
ReadyCheck(c) == isCameraReady[c] /\ srcObject # 0

\* One click listener, of controller c, run on the effects st so far.
\* drawFails: context.drawImage(...) throws (getContext("2d") gave null, or
\* the draw itself fails); nothing in the listener catches it, so the
\* listener ends there, after the canvas was resized.
Listener(c, st, drawFails) ==
    LET prevented == [st EXCEPT !.defaultPrevented = TRUE] IN
    IF ~ReadyCheck(c)
    THEN [prevented EXCEPT !.alerts = Append(@, AlertNotReady)]
    ELSE LET sized == [prevented EXCEPT !.canvas = videoDims,
                                        !.passed = @ + 1] IN
         IF drawFails
         THEN [sized EXCEPT !.uncaught = @ + 1]
         ELSE [sized EXCEPT
                  !.pending = Append(@, [ctrl |-> c, click |-> clicks + 1,
                                         bitmap |-> sized.canvas,
                                         clickDims |-> videoDims]),
                  !.captures = @ + 1]

RECURSIVE RunListeners(_, _, _)
RunListeners(ls, st, drawFails) ==
    IF ls = <<>> THEN st
    ELSE RunListeners(Tail(ls), Listener(Head(ls), st, drawFails), drawFails)

\* A click event is dispatched on the trigger control: every registered
\* listener runs, in registration order; an exception that escapes one
\* listener is reported and does not keep the next listener from running.
Click(drawFails) ==
    /\ ~unloaded
    /\ "captureButton" \in present
    /\ \A c \in Controllers : pc[c] # "start"
    /\ clicks < MaxClicks
    /\ LET st == RunListeners(listeners,
                     [canvas |-> canvas, pending |-> pending,
                      alerts |-> <<>>, captures |-> 0,
                      defaultPrevented |-> FALSE,
                      passed |-> 0, uncaught |-> 0],
                     drawFails)
       IN /\ drawFails => st.passed > 0
          /\ canvas' = st.canvas
          /\ pending' = st.pending
          /\ out' = [Quiet("click") EXCEPT
                        !.alerts = st.alerts,
                        !.defaultPrevented = st.defaultPrevented,
                        !.captures = st.captures,
                        !.passed = st.passed,
                        !.uncaught = st.uncaught]
    /\ clicks' = clicks + 1
    /\ UNCHANGED <<present, pc, isCameraReady, stream, stopCalls, requests,
                   srcObject, onloadedmetadata, metadataPending, videoDims,
                   listeners, files, label, disabled, now, assignments,
                   origin, unloaded>>

\* ------------------------------------------------------ toBlob callback
\* "capture_" + Date.now() + ".jpeg"  /  "captured_item.jpeg"
FileName(c, t) ==
    IF c = 1 THEN "capture_" \o ToString(t) \o ".jpeg"
             ELSE "captured_item.jpeg"

\* An encoder that reads the canvas when the request completes.
EncodedSizeLive(p) == canvas

\* Pixel size of the JPEG that the toBlob request p encodes: the bitmap
\* copied when toBlob was called.
EncodedSize(p) == p.bitmap

\* An assignment that is skipped when the field already holds a file.
AssignFilesFirst(old, file) == IF old = <<>> THEN <<file>> ELSE old

\* A DataTransfer that is kept across captures, so that files pile up.
AssignFilesKeep(old, file) == Append(old, file)

\* new DataTransfer(); items.add(file); fileInput.files = dataTransfer.files
AssignFiles(old, file) == <<file>>

RemoveAt(s, i) == SubSeq(s, 1, i - 1) \o SubSeq(s, i + 1, Len(s))

\* A callback whose failure branch empties the upload field.
ToBlobCallbackClearing(i, hasBlob, t) ==
    /\ ~unloaded
    /\ ~InDispatch
    /\ i \in DOMAIN pending
    /\ LET p == pending[i] IN
       /\ hasBlob => EncodedSize(p) # NoDims
       /\ t = IF hasBlob /\ p.ctrl = 1 THEN t ELSE now
       /\ t >= now
       /\ IF ~hasBlob
          THEN /\ out' = [Quiet("toBlob") EXCEPT
                             !.alerts = <<AlertCaptureFailed>>]
               /\ files' = <<>>
               /\ UNCHANGED <<assignments, origin, now>>
          ELSE LET file == [name |-> FileName(p.ctrl, t),
                            type |-> JpegType,
                            size |-> EncodedSize(p)]
               IN /\ files' = AssignFiles(files, file)
                  /\ assignments' = assignments + 1
                  /\ origin' = p
                  /\ now' = t
                  /\ out' = [Quiet("toBlob") EXCEPT
                                !.alerts = <<AlertSuccess(p.ctrl)>>]
    /\ pending' = RemoveAt(pending, i)
    /\ UNCHANGED <<present, pc, isCameraReady, stream, stopCalls, requests,
                   srcObject, onloadedmetadata, metadataPending, videoDims,
                   canvas, listeners, label, disabled, clicks, unloaded>>

\* The i-th toBlob request in flight completes and its callback runs, with
\* a payload (hasBlob) or with null; t is the clock value Date.now() gives.
ToBlobCallback(i, hasBlob, t) ==
    /\ ~unloaded
    /\ ~InDispatch
    /\ i \in DOMAIN pending
    /\ LET p == pending[i] IN
       /\ hasBlob => EncodedSize(p) # NoDims
       /\ t = IF hasBlob /\ p.ctrl = 1 THEN t ELSE now
       /\ t >= now
       /\ IF ~hasBlob
          THEN /\ out' = [Quiet("toBlob") EXCEPT
                             !.alerts = <<AlertCaptureFailed>>]
               /\ UNCHANGED <<files, assignments, origin, now>>
          ELSE LET file == [name |-> FileName(p.ctrl, t),
                            type |-> JpegType,
                            size |-> EncodedSize(p)]
               IN /\ files' = AssignFiles(files, file)
                  /\ assignments' = assignments + 1
                  /\ origin' = p
                  /\ now' = t
                  /\ out' = [Quiet("toBlob") EXCEPT
                                !.alerts = <<AlertSuccess(p.ctrl)>>]
    /\ pending' = RemoveAt(pending, i)
    /\ UNCHANGED <<present, pc, isCameraReady, stream, stopCalls, requests,
                   srcObject, onloadedmetadata, metadataPending, videoDims,
                   canvas, listeners, label, disabled, clicks, unloaded>>

\* --------------------------------------------------------------- unload
\* The page is unloaded. The script registers no listener for it.
Unload ==
    /\ ~unloaded
    /\ ~InDispatch
    /\ unloaded' = TRUE
    /\ out' = Quiet("unload")
    /\ UNCHANGED <<present, pc, isCameraReady, stream, stopCalls, requests,
                   srcObject, onloadedmetadata, metadataPending, videoDims,
                   canvas, listeners, pending, files, label, disabled, now,
                   clicks, assignments, origin>>

Next ==
    \/ \E c \in Controllers, call \in Calls : DOMContentLoaded(c, call)
    \/ \E c \in Controllers : GetUserMediaGranted(c)
    \/ \E c \in Controllers : GetUserMediaRejected(c)
    \/ \E d \in Dims : LoadedMetadata(d)
    \/ \E d \in Dims : Resize(d)
    \/ \E drawFails \in BOOLEAN : Click(drawFails)
    \/ \E i \in 1..(2 * MaxClicks), hasBlob \in BOOLEAN, t \in 0..MaxClock :
           ToBlobCallback(i, hasBlob, t)
    \/ Unload

Spec == Init /\ [][Next]_vars

TypeOK ==
    /\ present \subseteq Elements
    /\ pc \in [Controllers -> {"start", "aborted", "requesting",
                               "listening", "unavailable"}]
    /\ isCameraReady \in [Controllers -> BOOLEAN]
    /\ stream \in [Controllers -> {"none", "live", "ended"}]
    /\ stopCalls \in [Controllers -> Nat]
    /\ requests \in 0..Cardinality(Controllers)
    /\ srcObject \in {0} \cup Controllers
    /\ onloadedmetadata \in {0} \cup Controllers
    /\ metadataPending \in BOOLEAN
    /\ videoDims \in Dims \cup {NoDims}
    /\ canvas \in Dims \cup {NoDims}
    /\ Len(listeners) <= Cardinality(Controllers)
    /\ Len(pending) <= 2 * MaxClicks
    /\ Len(files) <= 1
    /\ now \in 0..MaxClock
    /\ clicks \in 0..MaxClicks
    /\ unloaded \in BOOLEAN

\* ================================================================ claims
Range(s) == {s[i] : i \in DOMAIN s}

\* Every request in flight of controller c.
InFlight(q, c) == {i \in DOMAIN q : q[i].ctrl = c}

\* A file name of the form capture_<timestamp digits>.jpeg
IsCaptureName(n) ==
    \E t \in 0..MaxClock : n = "capture_" \o ToString(t) \o ".jpeg"

\* ---------------------------------------------------------------- C1
ReadyCapturesOnly ==
    /\ \A i \in DOMAIN pending :
           isCameraReady[pending[i].ctrl] /\ srcObject # 0
    /\ (files # <<>>) <=> (origin.ctrl # 0)
    /\ origin.ctrl # 0 => isCameraReady[origin.ctrl]

NotReadyClickStep ==
    /\ out'.event = "click" =>
          /\ files' = files
          /\ assignments' = assignments
          /\ \A c \in Controllers :
                 ~isCameraReady[c] =>
                     Cardinality(InFlight(pending', c)) =
                     Cardinality(InFlight(pending, c))
    /\ assignments' # assignments =>
          /\ out'.event = "toBlob"
          /\ \E i \in DOMAIN pending :
                 /\ pending' = RemoveAt(pending, i)
                 /\ origin' = pending[i]
                 /\ isCameraReady[pending[i].ctrl]
    /\ assignments' = assignments => files' = files

\* C1: a click handled by a listener whose readiness flag is false leaves
\* the upload field's file list unchanged and starts no capture for that
\* listener; the file list is assigned only by the toBlob callback of a
\* capture that a click started after observing isCameraReady true and
\* video.srcObject set.
C1_NotReadyClickKeepsFiles ==
    []ReadyCapturesOnly /\ [][NotReadyClickStep]_vars

\* A click was handled by a registered listener whose flag was false, and
\* it started no capture.
C1_Witness ==
    /\ out.event = "click"
    /\ listeners # <<>>
    /\ AlertNotReady \in Range(out.alerts)
    /\ out.captures = 0

\* ---------------------------------------------------------------- C2
\* C2: every click on the trigger control made after the elements were
\* found and while the readiness flag is false (request pending, metadata
\* not yet reported, or request rejected) shows the "not ready" alert.
C2_NotReadyClickAlwaysAlerts ==
    ( /\ out.event = "click"
      /\ FoundAll
      /\ \A c \in Controllers : ~isCameraReady[c] )
    => AlertNotReady \in Range(out.alerts)

\* ---------------------------------------------------------------- C3
\* C3: after a successful capture, once no toBlob callback is pending, the
\* upload field holds exactly one file, of type image/jpeg, named
\* capture_<timestamp digits>.jpeg.
C3_SuccessfulCaptureFile ==
    (assignments > 0 /\ pending = <<>>) =>
        /\ Len(files) = 1
        /\ files[1].type = JpegType
        /\ IsCaptureName(files[1].name)

\* ---------------------------------------------------------------- C4
\* C4: the upload field's file list has length 0 or 1 in every reachable
\* state; it is empty exactly until the first successful capture, and
\* afterwards it holds only the file of the capture that assigned last.
C4_AtMostOneFile ==
    /\ Len(files) \in {0, 1}
    /\ (assignments = 0) <=> (files = <<>>)
    /\ assignments > 0 =>
          /\ files[1].size = origin.bitmap
          /\ files[1].type = JpegType

\* Two successful captures have assigned the file list, and it holds one
\* file.
C4_Witness ==
    /\ assignments >= 2
    /\ Len(files) = 1
    /\ out.event = "toBlob"
    /\ out.alerts = <<AlertSuccess(origin.ctrl)>>

\* ---------------------------------------------------------------- C5
\* C5: two successful captures of one page load assign files with distinct
\* names, also when they complete at the same clock value and whichever
\* controller's callback produced them.
C5_DistinctNames ==
    [][ (assignments' = assignments + 1 /\ files # <<>>)
        => files'[1].name # files[1].name ]_vars

\* ---------------------------------------------------------------- C6
\* C6: the file of a successful capture has the pixel size the video had
\* at the click that started the capture; neither a resolution change nor
\* another click between that click and the toBlob callback changes it.
C6_FileSizeIsClickSize ==
    /\ \A i \in DOMAIN pending : pending[i].bitmap = pending[i].clickDims
    /\ files # <<>> => files[1].size = origin.clickDims

\* A file was assigned whose capture was started at another resolution
\* than the present one, with another click having resized the canvas in
\* between.
C6_Witness ==
    /\ files # <<>>
    /\ out.event = "toBlob"
    /\ out.alerts = <<AlertSuccess(origin.ctrl)>>
    /\ origin.clickDims # videoDims
    /\ canvas # origin.clickDims
    /\ files[1].size = origin.clickDims

\* ---------------------------------------------------------------- C7
\* C7: once a camera request was rejected, the trigger control is disabled
\* and relabeled, the readiness flag stays false, and no later click starts
\* a capture (so none leads to an assignment of the file list).
C7_RejectionDisablesCapture ==
    (\E c \in Controllers : pc[c] = "unavailable") =>
        /\ disabled
        /\ label = LabelUnavailable
        /\ \A c \in Controllers : pc[c] = "unavailable" => ~isCameraReady[c]
        /\ out.event = "click" => out.captures = 0

\* ---------------------------------------------------------------- C8
NoSetup ==
    /\ requests = 0
    /\ out.alerts = <<>>
    /\ listeners = <<>>
    /\ srcObject = 0
    /\ onloadedmetadata = 0
    /\ \A c \in Controllers :
           /\ ~isCameraReady[c]
           /\ stream[c] = "none"
           /\ pc[c] \in {"start", "aborted"}
    /\ pending = <<>>
    /\ files = <<>>
    /\ canvas = NoDims
    /\ ~disabled

\* C8: with an element absent no camera request is issued, no alert is
\* shown, no click listener is registered, and nothing is done beyond
\* console logging: the trigger control keeps its text.
C8_MissingElementOnlyLogs ==
    ~FoundAll => (NoSetup /\ label = HtmlLabel)

\* ---------------------------------------------------------------- C9
ReadyOnlyWhenListening ==
    \A c \in Controllers : isCameraReady[c] => pc[c] = "listening"

ReadySetByMetadataStep ==
    \A c \in Controllers :
        (isCameraReady'[c] # isCameraReady[c]) =>
            /\ isCameraReady'[c]
            /\ pc[c] = "listening"
            /\ srcObject # 0
            /\ metadataPending /\ ~metadataPending'
            /\ out'.event = "loadedmetadata"

\* C9: a controller's readiness flag is true only after camera access was
\* granted to it and the video then reported loadedmetadata: the flag
\* turns true only in a loadedmetadata step taken after the grant, and is
\* false while the request is pending, before the metadata event, and
\* after a rejection.
C9_ReadyOnlyAfterMetadata ==
    []ReadyOnlyWhenListening /\ [][ReadySetByMetadataStep]_vars

\* One controller is ready after its metadata event while the other one's
\* request was rejected.
C9_Witness ==
    \E c, d \in Controllers :
        /\ isCameraReady[c]
        /\ pc[d] = "unavailable"
        /\ ~isCameraReady[d]

\* ---------------------------------------------------------------- C10
\* C10: after the page unload event every track of every acquired stream
\* has been stopped, exactly once.
C10_UnloadStopsTracks ==
    unloaded =>
        \A c \in Controllers :
            stream[c] # "none" => (stream[c] = "ended" /\ stopCalls[c] = 1)

\* ---------------------------------------------------------------- C11
FailedCaptureStep ==
    (out'.event = "toBlob" /\ AlertCaptureFailed \in Range(out'.alerts)) =>
        /\ out'.alerts = <<AlertCaptureFailed>>
        /\ files' = files
        /\ assignments' = assignments
        /\ origin' = origin
        /\ isCameraReady' = isCameraReady
        /\ pc' = pc
        /\ listeners' = listeners
        /\ srcObject' = srcObject

EmptyPayloadStep ==
    (out'.event = "toBlob" /\ assignments' = assignments) =>
        /\ out'.alerts = <<AlertCaptureFailed>>
        /\ files' = files

\* C11: when a capture's compression delivers an empty payload, the
\* capture-failed alert is shown, the upload field's file list and the
\* readiness flags are what they were before the callback ran, and the
\* listener that handled the click is still registered and ready, so that
\* a later click can start a capture again.
C11_FailedCaptureKeepsState ==
    [][FailedCaptureStep /\ EmptyPayloadStep]_vars

\* A capture failed after an earlier one had put a file into the upload
\* field, and the file is still there.
C11_Witness ==
    /\ out.event = "toBlob"
    /\ out.alerts = <<AlertCaptureFailed>>
    /\ files # <<>>
    /\ origin.ctrl # 0
    /\ isCameraReady[origin.ctrl]

\* ---------------------------------------------------------------- C12
\* C12: an exception raised in a click listener during capture never
\* escapes the listener; it is surfaced as a retry alert.
C12_CaptureExceptionCaught ==
    (out.event = "click" /\ out.passed > 0) =>
        /\ out.uncaught = 0
        /\ out.passed > out.captures => out.alerts # <<>>

\* ---------------------------------------------------------------- C13
\* C13: every click on the trigger control, in every controller state, has
\* its default behaviour suppressed.
C13_DefaultAlwaysPrevented ==
    (out.event = "click" /\ FoundAll) => out.defaultPrevented

\* ---------------------------------------------------------------- C14
\* The controller state of the specification's state machine.
CtrlState(c) ==
    IF pc[c] \in {"start", "aborted"} THEN "Uninitialized"
    ELSE IF pc[c] = "unavailable" THEN "Unavailable"
    ELSE IF isCameraReady[c] THEN "Ready"
    ELSE "Requesting"

CtrlMoves ==
    {<<"Uninitialized", "Requesting">>, <<"Requesting", "Ready">>,
     <<"Requesting", "Unavailable">>}

\* The move of a handler that reaches its catch block within the
\* DOMContentLoaded dispatch: the getUserMedia call throws, or the promise
\* it returns is already rejected when it is awaited.
CtrlMovesNoApi == {<<"Uninitialized", "Unavailable">>}

CtrlStepIn(moves) ==
    \A c \in Controllers :
        /\ CtrlState(c)' # CtrlState(c) =>
               <<CtrlState(c), CtrlState(c)'>> \in moves
        /\ isCameraReady[c] => isCameraReady'[c]
        /\ out'.event \in {"click", "toBlob"} =>
               /\ CtrlState(c)' = CtrlState(c)
               /\ isCameraReady'[c] = isCameraReady[c]
               /\ pc'[c] = pc[c]

\* C14 as stated: each controller only moves Uninitialized -> Requesting
\* -> {Ready, Unavailable}; its readiness flag goes from false to true at
\* most once and is never reset, Unavailable is never left, and no click
\* and no capture outcome changes the controller state.
C14_ControllerStateMachine ==
    [][CtrlStepIn(CtrlMoves)]_vars

\* C14 as amended: as stated, except that a controller also moves from
\* Uninitialized to Unavailable without being seen in Requesting, within
\* the DOMContentLoaded dispatch, when the call of getUserMedia throws
\* before a request is issued or returns an already rejected promise.
C14_ControllerStateMachineNoApi ==
    [][ /\ CtrlStepIn(CtrlMoves \cup CtrlMovesNoApi)
        /\ \A c \in Controllers :
               <<CtrlState(c), CtrlState(c)'>> \in CtrlMovesNoApi =>
                   /\ out'.event = "DOMContentLoaded"
                   /\ requests' \in {requests, requests + 1}
                   /\ AlertNoCamera \in Range(out'.alerts) ]_vars

\* A controller is Ready although the other controller's stream has since
\* replaced its own on the video, and a click or a capture outcome has
\* just been handled.
C14_Witness ==
    \E c \in Controllers :
        /\ CtrlState(c) = "Ready"
        /\ srcObject # c
        /\ out.event \in {"click", "toBlob"}

\* ---------------------------------------------------------------- C15
\* The file that the callback of request p builds at clock value t.
FileOf(p, t) ==
    [name |-> FileName(p.ctrl, t), type |-> JpegType, size |-> p.bitmap]

EveryRequestCanComplete ==
    ~unloaded =>
        \A i \in DOMAIN pending : ENABLED ToBlobCallback(i, FALSE, now)

LastCompletedWinsStep ==
    /\ out'.event = "toBlob" =>
           \E i \in DOMAIN pending : pending' = RemoveAt(pending, i)
    /\ (out'.event = "toBlob" /\ assignments' = assignments + 1) =>
           \E i \in DOMAIN pending :
               /\ pending' = RemoveAt(pending, i)
               /\ origin' = pending[i]
               /\ files' = <<FileOf(pending[i], now')>>

\* C15: with several captures in flight, each request can complete
\* whatever the others do, a completion removes only its own request, and
\* a successful completion makes the upload field hold exactly that
\* request's file: the field ends with the file of the callback that
\* assigned last, not with a mix and not with an earlier one's file.
C15_LastCompletedWins ==
    []EveryRequestCanComplete /\ [][LastCompletedWinsStep]_vars

\* Two clicks, one listener, both captures succeeded, and the first
\* click's callback completed last: the field holds the first click's file.
C15_Witness ==
    /\ Len(listeners) = 1
    /\ clicks = 2
    /\ assignments = 2
    /\ pending = <<>>
    /\ origin.click = 1
    /\ files = <<FileOf(origin, now)>>

\* ---------------------------------------------------------------- C16
\* C16: every click handled in the Ready state starts exactly one capture,
\* whose callback then gives exactly one outcome: none is left without an
\* outcome and none gets two.
C16_ReadyClickOneOutcome ==
    (out.event = "click" /\ out.passed > 0) => out.captures = 1

\* ---------------------------------------------------------------- C17
\* C17 as stated: the loadedmetadata observer is registered before the
\* stream is attached.
C17_ObserverBeforeAttach ==
    \A j \in DOMAIN out.steps :
        out.steps[j] = "srcObject" =>
            /\ j > 1
            /\ out.steps[j - 1] = "onloadedmetadata"

\* C17 as amended: the observer is registered right after the stream is
\* attached, in the same continuation, so that whenever a metadata event
\* of the attached stream is outstanding the observer of the controller
\* that attached it is registered, and a flag is true only for a
\* controller whose click listener is registered.
C17_ObserverWithAttach ==
    /\ out.event = "granted" => out.steps # <<>>
    /\ \A i \in DOMAIN out.steps :
           out.steps[i] = "srcObject" =>
               /\ i + 1 \in DOMAIN out.steps
               /\ out.steps[i + 1] = "onloadedmetadata"
    /\ metadataPending => (srcObject # 0 /\ onloadedmetadata = srcObject)
    /\ \A c \in Controllers : isCameraReady[c] => c \in Range(listeners)

\* A stream has just been attached and its metadata event is outstanding.
C17_Witness ==
    /\ out.event = "granted"
    /\ metadataPending
    /\ srcObject # 0
    /\ onloadedmetadata = srcObject

\* ---------------------------------------------------------------- C18
\* C18: once camera access was granted to every controller and the video
\* has reported loadedmetadata for the attached stream, every controller's
\* readiness flag is true (so no click shows the "not ready" alert).
C18_AllReadyAfterMetadata ==
    ( /\ \A c \in Controllers : pc[c] = "listening"
      /\ ~metadataPending )
    => /\ \A c \in Controllers : isCameraReady[c]
       /\ out.event = "click" => AlertNotReady \notin Range(out.alerts)

\* ---------------------------------------------------------------- C19
\* C19: a click in the Ready state (whose drawing raises no exception)
\* causes exactly one toBlob request and no alert of its own, the one
\* alert being that of the request's callback.
C19_OneCapturePerClick ==
    (out.event = "click" /\ out.passed > 0 /\ out.uncaught = 0) =>
        /\ out.captures = 1
        /\ out.alerts = <<>>

\* ---------------------------------------------------------------- C20
\* C20: per page load at most one getUserMedia request is issued and at
\* most one stream is held, and no acquired stream is live without being
\* the one attached to the video.
C20_OneRequestOneStream ==
    /\ requests <= 1
    /\ Cardinality({c \in Controllers : stream[c] # "none"}) <= 1
    /\ \A c \in Controllers : stream[c] = "live" => srcObject = c

====
